---- MODULE Spec2Model ----
(***************************************************************************)
(* A model of workout.py: the four tables behind the module-level sqlite   *)
(* cursor, the per-session st.session_state, and the button handlers of    *)
(* main() and of the page functions.                                       *)
(*                                                                         *)
(* A table is the sequence of its rows in rowid order.  A row of users is  *)
(* the tuple sqlite hands back for SELECT *: <<id, username, password,     *)
(* name, email>>, so the code's user[0], user[2], user[3] are r[1], r[3],  *)
(* r[4] here.  Python's None is the empty tuple <<>>.                      *)
(***************************************************************************)
EXTENDS Integers, Sequences, FiniteSets, TLC

VARIABLES
    users,          \* table users
    workouts,       \* table workouts
    challenges,     \* table challenges
    participants,   \* table challenge_participants
    cursor,         \* rows the module-level cursor still holds for fetch
    session,        \* st.session_state of each browser session
    pc,             \* where a session's script run stands (statement-level runs)
    req,            \* the widget values of the handler a session is running
    logged,         \* history: what each user id has logged through Log Workout
    ev              \* the last interaction: who, what, inputs, message, result

vars == <<users, workouts, challenges, participants, cursor, session, pc, req,
          logged, ev>>

None == <<>>

----------------------------------------------------------------------------
(* Input sets                                                              *)

Sessions == {"s1", "s2"}
Usernames == {"alice", "bob"}
Passwords == {"pw", "PW"}
Names == {"Al", "Bo"}
Emails == {"a@x"}

\* (type, duration >= 1, calories >= 0) as the Log Workout widgets allow
WorkoutInputs == {<<"Running", 30, 300>>, <<"Cycling", 20, 150>>, <<"", 1, 0>>}

\* the options of the Challenge Type select box
ChallengeTypeOptions == {"", "Time-based", "Reps-based", "Distance-based"}
ChallengeNames == {"c"}

MaxWorkouts == 3
MaxChallenges == 2
MaxJoins == 2
MaxNavWorkouts == 1
MaxNavChallenges == 1
MaxNavJoins == 1
MaxGoal == 2

UserIds == 1..Cardinality(Usernames)

----------------------------------------------------------------------------
(* The store: statements and the functions around them                     *)

RECURSIVE SumCol(_, _)
SumCol(rows, k) ==
    IF rows = <<>> THEN 0 ELSE Head(rows)[k] + SumCol(Tail(rows), k)

\* cursor.fetchone(): the next row of the result set, or None
fetchone(rs) == IF rs = <<>> THEN None ELSE Head(rs)

\* what fetchone leaves in the cursor
afterFetchone(rs) == IF rs = <<>> THEN <<>> ELSE Tail(rs)

\* SELECT * FROM users WHERE username = ?
SelectUserByUsername(us, username) ==
    SelectSeq(us, LAMBDA r : r[2] = username)

\* check_user without its return
check_user_none(us, username) == None

check_user(us, username) == fetchone(SelectUserByUsername(us, username))

\* the UNIQUE constraint on users.username
UniqueViolated(us, username) == \E i \in 1..Len(us) : us[i][2] = username

\* add_user on a table without the UNIQUE constraint
add_user_no_unique(us, username, password, name, email) ==
    [ok |-> TRUE,
     users |-> Append(us, <<Len(us) + 1, username, password, name, email>>)]

\* INSERT INTO users ...; commit.  ok = FALSE is sqlite3.IntegrityError.
add_user(us, username, password, name, email) ==
    IF UniqueViolated(us, username)
    THEN [ok |-> FALSE, users |-> us]
    ELSE [ok |-> TRUE,
          users |-> Append(us, <<Len(us) + 1, username, password, name, email>>)]

\* lower-casing, on the passwords of the runs
Lower(x) == IF x = "PW" THEN "pw" ELSE x

\* verify_user comparing passwords without regard to case
verify_row_nocase(user, password) ==
    IF user # None /\ Lower(user[3]) = Lower(password) THEN user ELSE None

\* "if user and user[2] == password: return user; return None"
verify_row(user, password) ==
    IF user # None /\ user[3] = password THEN user ELSE None

verify_user(us, username, password) ==
    verify_row(check_user(us, username), password)

\* the UPDATE without its WHERE clause
reset_password_all(us, username, new_password) ==
    [i \in 1..Len(us) |-> [us[i] EXCEPT ![3] = new_password]]

\* UPDATE users SET password = ? WHERE username = ?
reset_password(us, username, new_password) ==
    [i \in 1..Len(us) |->
        IF us[i][2] = username THEN [us[i] EXCEPT ![3] = new_password] ELSE us[i]]

----------------------------------------------------------------------------
(* Session state                                                           *)

LoggedOut == [logged_in |-> FALSE, user |-> None]

NoReq == [username |-> "", password |-> "", name |-> "", email |-> "", confirm |-> ""]

NoLog == [count |-> 0, duration |-> 0, calories |-> 0, by_type |-> <<>>]

Event(s, op, in, msg, res) ==
    [s |-> s, op |-> op, in |-> in, msg |-> msg, res |-> res]

Init ==
    /\ users = <<>>
    /\ workouts = <<>>
    /\ challenges = <<>>
    /\ participants = <<>>
    /\ cursor = <<>>
    /\ session = [s \in Sessions |-> LoggedOut]
    /\ pc = [s \in Sessions |-> "idle"]
    /\ req = [s \in Sessions |-> NoReq]
    /\ logged = [u \in UserIds |-> NoLog]
    /\ ev = Event("", "start", <<>>, "", None)

Idle(s) == pc[s] = "idle"

----------------------------------------------------------------------------
(* main(): the logged-out menu, one whole script run per button press      *)

Signup(s, username, password, name, email) ==
    /\ Idle(s)
    /\ ~session[s].logged_in
    /\ IF check_user(users, username) # None
       THEN /\ users' = users
            /\ ev' = Event(s, "Signup", <<username, password, name, email>>,
                           "Username already exists!", None)
       ELSE LET r == add_user(users, username, password, name, email) IN
            /\ users' = r.users
            /\ ev' = Event(s, "Signup", <<username, password, name, email>>,
                           IF r.ok THEN "Account created! You can now login."
                                   ELSE "IntegrityError", None)
    /\ cursor' = <<>>
    /\ UNCHANGED <<workouts, challenges, participants, session, pc, req, logged>>

Login(s, username, password) ==
    /\ Idle(s)
    /\ ~session[s].logged_in
    /\ LET user == verify_user(users, username, password) IN
       IF user # None
       THEN /\ session' = [session EXCEPT ![s] = [logged_in |-> TRUE, user |-> user]]
            /\ ev' = Event(s, "Login", <<username, password>>,
                           "Logged in successfully!", user)
       ELSE /\ session' = session
            /\ ev' = Event(s, "Login", <<username, password>>,
                           "Invalid username or password", None)
    /\ cursor' = <<>>
    /\ UNCHANGED <<users, workouts, challenges, participants, pc, req, logged>>

ResetPassword(s, username, new_password, confirm_password) ==
    /\ Idle(s)
    /\ ~session[s].logged_in
    /\ IF check_user(users, username) = None
       THEN /\ users' = users
            /\ ev' = Event(s, "ResetPassword", <<username, new_password, confirm_password>>,
                           "Username not found!", None)
       ELSE IF new_password # confirm_password
       THEN /\ users' = users
            /\ ev' = Event(s, "ResetPassword", <<username, new_password, confirm_password>>,
                           "Passwords do not match.", None)
       ELSE /\ users' = reset_password(users, username, new_password)
            /\ ev' = Event(s, "ResetPassword", <<username, new_password, confirm_password>>,
                           "Password reset successfully! You can now login.", None)
    /\ cursor' = <<>>
    /\ UNCHANGED <<workouts, challenges, participants, session, pc, req, logged>>

Logout(s) ==
    /\ Idle(s)
    /\ session[s].logged_in
    /\ session' = [session EXCEPT ![s] = LoggedOut]
    /\ ev' = Event(s, "Logout", <<>>, "", None)
    /\ UNCHANGED <<users, workouts, challenges, participants, cursor, pc, req, logged>>

----------------------------------------------------------------------------
(* Workouts: logging, the dashboard summary, the leaderboard, the report   *)

\* log_workout with user_id and duration bound in the wrong order
log_workout_swapped(ws, user_id, workout_type, duration, calories_burned) ==
    Append(ws, [user_id |-> duration, workout_type |-> workout_type,
                duration |-> user_id, calories_burned |-> calories_burned])

\* INSERT INTO workouts (user_id, workout_type, duration, calories_burned)
log_workout(ws, user_id, workout_type, duration, calories_burned) ==
    Append(ws, [user_id |-> user_id, workout_type |-> workout_type,
                duration |-> duration, calories_burned |-> calories_burned])

RECURSIVE ProjectWorkouts(_)
ProjectWorkouts(ws) ==
    IF ws = <<>> THEN <<>>
    ELSE <<<<Head(ws).workout_type, Head(ws).duration, Head(ws).calories_burned>>>>
         \o ProjectWorkouts(Tail(ws))

\* the workouts query without its WHERE clause
SelectWorkoutsAll(ws, user_id) == ProjectWorkouts(ws)

\* SELECT workout_type, duration, calories_burned FROM workouts WHERE user_id = ?
SelectWorkoutsByUser(ws, user_id) ==
    ProjectWorkouts(SelectSeq(ws, LAMBDA w : w.user_id = user_id))

\* df.groupby("Workout")["Calories"].sum()
GroupCalories(data) ==
    [t \in {data[i][1] : i \in 1..Len(data)} |->
        SumCol(SelectSeq(data, LAMBDA r : r[1] = t), 3)]

\* the metrics and the bar chart user_dashboard computes from the fetched rows
Summarise(data) ==
    [count |-> Len(data),
     duration |-> SumCol(data, 2),
     calories |-> SumCol(data, 3),
     by_type |-> GroupCalories(data)]

\* user_dashboard up to the early return: None stands for the
\* "You haven't logged any workouts yet." info box
user_dashboard(ws, user_id) ==
    LET data == SelectWorkoutsByUser(ws, user_id) IN
    IF data = <<>> THEN None ELSE Summarise(data)

\* FROM workouts JOIN users ON workouts.user_id = users.id, as
\* (username, calories_burned) pairs
RECURSIVE JoinWorkoutsUsers(_, _)
JoinWorkoutsUsers(ws, us) ==
    IF ws = <<>> THEN <<>>
    ELSE LET w == Head(ws)
             match == SelectSeq(us, LAMBDA u : u[1] = w.user_id)
         IN  [i \in 1..Len(match) |-> <<match[i][2], w.calories_burned>>]
             \o JoinWorkoutsUsers(Tail(ws), us)

\* GROUP BY users.username with SUM(workouts.calories_burned)
GroupTotal(joined, username) ==
    SumCol(SelectSeq(joined, LAMBDA r : r[1] = username), 2)

GroupKeys(joined) == {joined[i][1] : i \in 1..Len(joined)}

\* ORDER BY total_calories without DESC
InsertAsc(sorted, e) ==
    LET before == SelectSeq(sorted, LAMBDA x : x[2] <= e[2])
        after == SelectSeq(sorted, LAMBDA x : x[2] > e[2])
    IN  before \o <<e>> \o after

\* ORDER BY total_calories DESC: rows of equal total keep the order in which
\* the grouping produced them
InsertDesc(sorted, e) ==
    LET before == SelectSeq(sorted, LAMBDA x : x[2] >= e[2])
        after == SelectSeq(sorted, LAMBDA x : x[2] < e[2])
    IN  before \o <<e>> \o after

RECURSIVE OrderByTotalDesc(_)
OrderByTotalDesc(rows) ==
    IF rows = <<>> THEN <<>>
    ELSE InsertDesc(OrderByTotalDesc(SubSeq(rows, 1, Len(rows) - 1)), rows[Len(rows)])

\* the orders in which the store may produce the groups
Enumerations(S) ==
    {f \in [1..Cardinality(S) -> S] : \A x \in S : \E i \in 1..Cardinality(S) : f[i] = x}

\* the leaderboard query for one order of the groups
LeaderboardQuery(ws, us, order) ==
    LET joined == JoinWorkoutsUsers(ws, us) IN
    OrderByTotalDesc([i \in 1..Len(order) |-> <<order[i], GroupTotal(joined, order[i])>>])

\* SELECT username, name, email FROM users WHERE id = ?
SelectUserById(us, user_id) ==
    LET match == SelectSeq(us, LAMBDA u : u[1] = user_id) IN
    [i \in 1..Len(match) |-> <<match[i][2], match[i][4], match[i][5]>>]

\* generate_report reading every user's workouts
generate_report_unfiltered(us, ws, user_id) ==
    LET user == fetchone(SelectUserById(us, user_id))
        data == ProjectWorkouts(ws)
    IN  IF user = None
        THEN [error |-> "TypeError"]
        ELSE [error |-> "",
              name |-> user[2], username |-> user[1], email |-> user[3],
              total_workouts |-> Len(data),
              total_duration |-> SumCol(data, 2),
              total_calories |-> SumCol(data, 3),
              log |-> data]

\* the lines generate_report writes into the PDF; error is the TypeError of
\* user[1] when no user row was fetched
generate_report(us, ws, user_id) ==
    LET user == fetchone(SelectUserById(us, user_id))
        data == SelectWorkoutsByUser(ws, user_id)
    IN  IF user = None
        THEN [error |-> "TypeError"]
        ELSE [error |-> "",
              name |-> user[2], username |-> user[1], email |-> user[3],
              total_workouts |-> Len(data),
              total_duration |-> SumCol(data, 2),
              total_calories |-> SumCol(data, 3),
              log |-> data]

\* the history of Log Workout presses, kept per logging user id
Record(lg, user_id, w) ==
    LET old == lg[user_id]
        types == DOMAIN old.by_type \cup {w[1]}
    IN  [lg EXCEPT ![user_id] =
            [count |-> old.count + 1,
             duration |-> old.duration + w[2],
             calories |-> old.calories + w[3],
             by_type |-> [t \in types |->
                            (IF t \in DOMAIN old.by_type THEN old.by_type[t] ELSE 0)
                            + (IF t = w[1] THEN w[3] ELSE 0)]]]

----------------------------------------------------------------------------
(* main(): the logged-in section.  user_id = st.session_state.user[0]      *)

SessionUserId(s) == session[s].user[1]

\* workout_page: the Log Workout button
LogWorkout(s, w, max) ==
    /\ Idle(s)
    /\ session[s].logged_in
    /\ Len(workouts) < max
    /\ workouts' = log_workout(workouts, SessionUserId(s), w[1], w[2], w[3])
    /\ logged' = Record(logged, SessionUserId(s), w)
    /\ ev' = Event(s, "LogWorkout", w, "workout logged!", SessionUserId(s))
    /\ cursor' = <<>>
    /\ UNCHANGED <<users, challenges, participants, session, pc, req>>

\* nav = Dashboard
Dashboard(s) ==
    /\ Idle(s)
    /\ session[s].logged_in
    /\ ev' = Event(s, "Dashboard", <<SessionUserId(s)>>, "",
                   user_dashboard(workouts, SessionUserId(s)))
    /\ cursor' = <<>>
    /\ UNCHANGED <<users, workouts, challenges, participants, session, pc, req, logged>>

\* the Generate & Download Report button, which user_dashboard renders only
\* below its early return
ReportButton(s) ==
    /\ Idle(s)
    /\ session[s].logged_in
    /\ user_dashboard(workouts, SessionUserId(s)) # None
    /\ ev' = Event(s, "Report", <<SessionUserId(s)>>, "Report ready for download!",
                   generate_report(users, workouts, SessionUserId(s)))
    /\ cursor' = <<>>
    /\ UNCHANGED <<users, workouts, challenges, participants, session, pc, req, logged>>

\* nav = Leaderboard
Leaderboard(s) ==
    /\ Idle(s)
    /\ session[s].logged_in
    /\ \E order \in Enumerations(GroupKeys(JoinWorkoutsUsers(workouts, users))) :
          ev' = Event(s, "Leaderboard", <<>>, "",
                      LeaderboardQuery(workouts, users, order))
    /\ cursor' = <<>>
    /\ UNCHANGED <<users, workouts, challenges, participants, session, pc, req, logged>>

NextWorkout ==
    \/ \E s \in Sessions, u \in Usernames : Signup(s, u, "pw", "Al", "a@x")
    \/ \E s \in Sessions, u \in Usernames : Login(s, u, "pw")
    \/ \E s \in Sessions : Logout(s)
    \/ \E s \in Sessions, w \in WorkoutInputs : LogWorkout(s, w, MaxWorkouts)
    \/ \E s \in Sessions : Dashboard(s)
    \/ \E s \in Sessions : ReportButton(s)
    \/ \E s \in Sessions : Leaderboard(s)

SpecWorkout == Init /\ [][NextWorkout]_vars

----------------------------------------------------------------------------
(* Challenges                                                              *)

\* INSERT INTO challenges (user_id, challenge_name, goal, challenge_type)
create_challenge(cs, user_id, challenge_name, goal, challenge_type) ==
    Append(cs, [user_id |-> user_id, challenge_name |-> challenge_name,
                goal |-> goal, challenge_type |-> challenge_type])

\* INSERT INTO challenge_participants (user_id, challenge_id)
join_challenge(ps, user_id, challenge_id) ==
    Append(ps, [user_id |-> user_id, challenge_id |-> challenge_id])

\* the ids of the two challenges challenge_page lists for joining
JoinableChallengeIds == {1, 2}

\* challenge_page: the Create Challenge button; goal comes from
\* number_input(min_value=1), challenge_type from the select box
CreateChallenge(s, challenge_name, goal, challenge_type, max) ==
    /\ Idle(s)
    /\ session[s].logged_in
    /\ Len(challenges) < max
    /\ challenges' = create_challenge(challenges, SessionUserId(s), challenge_name,
                                      goal, challenge_type)
    /\ ev' = Event(s, "CreateChallenge", <<challenge_name, goal, challenge_type>>,
                   "Challenge created!", SessionUserId(s))
    /\ cursor' = <<>>
    /\ UNCHANGED <<users, workouts, participants, session, pc, req, logged>>

\* challenge_page: a Join button
JoinChallenge(s, cid, max) ==
    /\ Idle(s)
    /\ session[s].logged_in
    /\ Len(participants) < max
    /\ participants' = join_challenge(participants, SessionUserId(s), cid)
    /\ ev' = Event(s, "JoinChallenge", <<cid>>, "You joined!", SessionUserId(s))
    /\ cursor' = <<>>
    /\ UNCHANGED <<users, workouts, challenges, session, pc, req, logged>>

NextChallenge ==
    \/ \E s \in Sessions, u \in Usernames : Signup(s, u, "pw", "Al", "a@x")
    \/ \E s \in Sessions, u \in Usernames : Login(s, u, "pw")
    \/ \E s \in Sessions : Logout(s)
    \/ \E s \in Sessions, c \in ChallengeNames, g \in 1..MaxGoal,
          ct \in ChallengeTypeOptions : CreateChallenge(s, c, g, ct, MaxChallenges)
    \/ \E s \in Sessions, cid \in JoinableChallengeIds : JoinChallenge(s, cid, MaxJoins)

SpecChallenge == Init /\ [][NextChallenge]_vars

----------------------------------------------------------------------------
(* The whole of main(): every button of both menus                         *)

Next ==
    \/ \E s \in Sessions, u \in Usernames : Signup(s, u, "pw", "Al", "a@x")
    \/ \E s \in Sessions, u \in Usernames, p \in Passwords : Login(s, u, p)
    \/ \E s \in Sessions, u \in Usernames : ResetPassword(s, u, "pw", "pw")
    \/ \E s \in Sessions : Logout(s)
    \/ \E s \in Sessions : LogWorkout(s, <<"Running", 30, 300>>, MaxNavWorkouts)
    \/ \E s \in Sessions : Dashboard(s)
    \/ \E s \in Sessions : ReportButton(s)
    \/ \E s \in Sessions : Leaderboard(s)
    \/ \E s \in Sessions : CreateChallenge(s, "c", 1, "Reps-based", MaxNavChallenges)
    \/ \E s \in Sessions, cid \in JoinableChallengeIds : JoinChallenge(s, cid, MaxNavJoins)

Spec == Init /\ [][Next]_vars

----------------------------------------------------------------------------
(* The store functions called directly, as a caller of the module would    *)

FnAddUser(username, password, name, email) ==
    LET r == add_user(users, username, password, name, email) IN
    /\ users' = r.users
    /\ ev' = Event("", "add_user", <<username, password, name, email>>,
                   IF r.ok THEN "" ELSE "IntegrityError", None)
    /\ cursor' = <<>>
    /\ UNCHANGED <<workouts, challenges, participants, session, pc, req, logged>>

FnLogWorkout(user_id, w) ==
    /\ Len(workouts) < MaxWorkouts
    /\ workouts' = log_workout(workouts, user_id, w[1], w[2], w[3])
    /\ logged' = Record(logged, user_id, w)
    /\ ev' = Event("", "log_workout", w, "", user_id)
    /\ cursor' = <<>>
    /\ UNCHANGED <<users, challenges, participants, session, pc, req>>

FnGenerateReport(user_id) ==
    /\ ev' = Event("", "generate_report", <<user_id>>, "",
                   generate_report(users, workouts, user_id))
    /\ cursor' = <<>>
    /\ UNCHANGED <<users, workouts, challenges, participants, session, pc, req, logged>>

NextFn ==
    \/ \E u \in Usernames, p \in Passwords, n \in Names, e \in Emails :
          FnAddUser(u, p, n, e)
    \/ \E id \in UserIds, w \in WorkoutInputs : FnLogWorkout(id, w)
    \/ \E id \in UserIds : FnGenerateReport(id)

SpecFn == Init /\ [][NextFn]_vars

----------------------------------------------------------------------------
(* The logged-out menu statement by statement.  conn and cursor are module *)
(* globals (check_same_thread=False) and no handler takes a lock, so       *)
(* between a session's cursor.execute and its cursor.fetchone another      *)
(* session's statement may run on the same cursor.                         *)

Req(username, password, name, email, confirm) ==
    [username |-> username, password |-> password, name |-> name,
     email |-> email, confirm |-> confirm]

ReqIn(s) == <<req[s].username, req[s].password, req[s].name, req[s].email,
              req[s].confirm>>

\* any of the three handlers: check_user's cursor.execute
ExecCheckUser(s, op, r) ==
    /\ Idle(s)
    /\ ~session[s].logged_in
    /\ cursor' = SelectUserByUsername(users, r.username)
    /\ req' = [req EXCEPT ![s] = r]
    /\ pc' = [pc EXCEPT ![s] = op]
    /\ ev' = Event(s, "execute", <<r.username>>, "", None)
    /\ UNCHANGED <<users, workouts, challenges, participants, session, logged>>

SignupExec(s, username, password, name, email) ==
    ExecCheckUser(s, "signup_fetch", Req(username, password, name, email, ""))

\* check_user's cursor.fetchone and the branch on it
SignupFetch(s) ==
    /\ pc[s] = "signup_fetch"
    /\ LET row == fetchone(cursor) IN
       /\ cursor' = afterFetchone(cursor)
       /\ IF row # None
          THEN /\ pc' = [pc EXCEPT ![s] = "idle"]
               /\ req' = [req EXCEPT ![s] = NoReq]
               /\ ev' = Event(s, "SignupFetch", ReqIn(s), "Username already exists!", row)
          ELSE /\ pc' = [pc EXCEPT ![s] = "signup_insert"]
               /\ req' = req
               /\ ev' = Event(s, "SignupFetch", ReqIn(s), "", row)
    /\ UNCHANGED <<users, workouts, challenges, participants, session, logged>>

\* add_user's INSERT and commit
SignupInsert(s) ==
    /\ pc[s] = "signup_insert"
    /\ LET r == add_user(users, req[s].username, req[s].password, req[s].name,
                         req[s].email) IN
       /\ users' = r.users
       /\ ev' = Event(s, "SignupInsert", ReqIn(s),
                      IF r.ok THEN "Account created! You can now login."
                              ELSE "IntegrityError", None)
    /\ cursor' = <<>>
    /\ pc' = [pc EXCEPT ![s] = "idle"]
    /\ req' = [req EXCEPT ![s] = NoReq]
    /\ UNCHANGED <<workouts, challenges, participants, session, logged>>

LoginExec(s, username, password) ==
    ExecCheckUser(s, "login_fetch", Req(username, password, "", "", ""))

\* check_user's cursor.fetchone, the comparison of verify_user, the session update
LoginFetch(s) ==
    /\ pc[s] = "login_fetch"
    /\ LET user == verify_row(fetchone(cursor), req[s].password) IN
       /\ cursor' = afterFetchone(cursor)
       /\ IF user # None
          THEN /\ session' = [session EXCEPT ![s] = [logged_in |-> TRUE, user |-> user]]
               /\ ev' = Event(s, "LoginFetch", ReqIn(s), "Logged in successfully!", user)
          ELSE /\ session' = session
               /\ ev' = Event(s, "LoginFetch", ReqIn(s), "Invalid username or password",
                              None)
    /\ pc' = [pc EXCEPT ![s] = "idle"]
    /\ req' = [req EXCEPT ![s] = NoReq]
    /\ UNCHANGED <<users, workouts, challenges, participants, logged>>

ResetExec(s, username, new_password, confirm_password) ==
    ExecCheckUser(s, "reset_fetch", Req(username, new_password, "", "", confirm_password))

ResetFetch(s) ==
    /\ pc[s] = "reset_fetch"
    /\ LET row == fetchone(cursor) IN
       /\ cursor' = afterFetchone(cursor)
       /\ IF row = None
          THEN /\ pc' = [pc EXCEPT ![s] = "idle"]
               /\ req' = [req EXCEPT ![s] = NoReq]
               /\ ev' = Event(s, "ResetFetch", ReqIn(s), "Username not found!", row)
          ELSE IF req[s].password # req[s].confirm
          THEN /\ pc' = [pc EXCEPT ![s] = "idle"]
               /\ req' = [req EXCEPT ![s] = NoReq]
               /\ ev' = Event(s, "ResetFetch", ReqIn(s), "Passwords do not match.", row)
          ELSE /\ pc' = [pc EXCEPT ![s] = "reset_update"]
               /\ req' = req
               /\ ev' = Event(s, "ResetFetch", ReqIn(s), "", row)
    /\ UNCHANGED <<users, workouts, challenges, participants, session, logged>>

\* reset_password's UPDATE and commit
ResetUpdate(s) ==
    /\ pc[s] = "reset_update"
    /\ users' = reset_password(users, req[s].username, req[s].password)
    /\ ev' = Event(s, "ResetUpdate", ReqIn(s),
                   "Password reset successfully! You can now login.", None)
    /\ cursor' = <<>>
    /\ pc' = [pc EXCEPT ![s] = "idle"]
    /\ req' = [req EXCEPT ![s] = NoReq]
    /\ UNCHANGED <<workouts, challenges, participants, session, logged>>

NextConc ==
    \/ \E s \in Sessions, u \in Usernames, p \in Passwords, n \in Names, e \in Emails :
          SignupExec(s, u, p, n, e)
    \/ \E s \in Sessions : SignupFetch(s)
    \/ \E s \in Sessions : SignupInsert(s)
    \/ \E s \in Sessions, u \in Usernames, p \in Passwords : LoginExec(s, u, p)
    \/ \E s \in Sessions : LoginFetch(s)
    \/ \E s \in Sessions, u \in Usernames, p \in Passwords, c \in Passwords :
          ResetExec(s, u, p, c)
    \/ \E s \in Sessions : ResetFetch(s)
    \/ \E s \in Sessions : ResetUpdate(s)
    \/ \E s \in Sessions : Logout(s)

SpecConc == Init /\ [][NextConc]_vars

NextAuth ==
    \/ \E s \in Sessions, u \in Usernames, p \in Passwords, n \in Names, e \in Emails :
          Signup(s, u, p, n, e)
    \/ \E s \in Sessions, u \in Usernames, p \in Passwords : Login(s, u, p)
    \/ \E s \in Sessions, u \in Usernames, p \in Passwords, c \in Passwords :
          ResetPassword(s, u, p, c)
    \/ \E s \in Sessions : Logout(s)

SpecAuth == Init /\ [][NextAuth]_vars

----------------------------------------------------------------------------
(* Properties of the logged-out menu                                       *)

HasUsername(us, username) == \E i \in 1..Len(us) : us[i][2] = username

StoredPassword(us, username) ==
    {us[i][3] : i \in {j \in 1..Len(us) : us[j][2] = username}}

OtherTablesSame ==
    /\ workouts' = workouts
    /\ challenges' = challenges
    /\ participants' = participants

\* C1: a Signup whose username is already in the users table reports
\* "Username already exists!" and leaves the users table exactly as it was.
C1_SignupDuplicate ==
    [][(ev'.op = "Signup" /\ HasUsername(users, ev'.in[1]))
          => (ev'.msg = "Username already exists!" /\ users' = users)]_vars

C1_Witness ==
    /\ ev.op = "Signup"
    /\ ev.msg = "Username already exists!"
    /\ HasUsername(users, ev.in[1])
    /\ Len(users) = 2

\* C2: a Login logs the session in as the user of that username if and only
\* if a row with that username exists whose stored password equals the
\* supplied one exactly; otherwise the session stays logged out and
\* "Invalid username or password" is reported.
C2_LoginIffExactPassword ==
    [][ev'.op = "Login" =>
          LET s == ev'.s
              username == ev'.in[1]
              password == ev'.in[2]
          IN  IF password \in StoredPassword(users, username)
              THEN /\ session'[s].logged_in
                   /\ session'[s].user \in {users[i] : i \in 1..Len(users)}
                   /\ session'[s].user[2] = username
                   /\ ev'.msg = "Logged in successfully!"
              ELSE /\ session'[s] = LoggedOut
                   /\ ev'.msg = "Invalid username or password"]_vars

C2_Witness ==
    /\ ev.op = "Login"
    /\ ev.msg = "Logged in successfully!"
    /\ session[ev.s].user[3] = "PW"
    /\ \E i \in 1..Len(users) : users[i][3] = "pw"

\* C6: a Reset Password changes the store only when the username exists and
\* the two passwords agree; then the password of that username's row becomes
\* the new password and nothing else changes (a login with the new password
\* then verifies, one with another password does not); with an unknown
\* username or differing passwords the store is unchanged.
C6_ResetPasswordFrame ==
    [][ev'.op = "ResetPassword" =>
          LET username == ev'.in[1]
              new_password == ev'.in[2]
              confirm_password == ev'.in[3]
          IN  /\ OtherTablesSame
              /\ IF HasUsername(users, username) /\ new_password = confirm_password
                 THEN /\ Len(users') = Len(users)
                      /\ \A i \in 1..Len(users) :
                            users'[i] = IF users[i][2] = username
                                        THEN <<users[i][1], users[i][2], new_password,
                                               users[i][4], users[i][5]>>
                                        ELSE users[i]
                      /\ verify_user(users', username, new_password) # None
                      /\ \A p \in Passwords \ {new_password} :
                            verify_user(users', username, p) = None
                      /\ ev'.msg = "Password reset successfully! You can now login."
                 ELSE /\ users' = users
                      /\ ev'.msg = IF HasUsername(users, username)
                                   THEN "Passwords do not match."
                                   ELSE "Username not found!"]_vars

C6_Witness ==
    /\ ev.op = "ResetPassword"
    /\ ev.msg = "Password reset successfully! You can now login."
    /\ Len(users) = 2
    /\ users[1][3] # users[2][3]
    /\ \E i \in 1..2 : users[i][2] = ev.in[1] /\ users[i][3] = ev.in[2]

----------------------------------------------------------------------------
(* Properties of the logged-in pages                                       *)

\* C3: the summary the dashboard shows for a user is exactly the count, the
\* total duration, the total calories and the calories per workout type of
\* what was logged with that user's id, whatever other users logged; with
\* nothing logged the dashboard shows the info box instead.
C3_SummaryMatchesLogged ==
    ev.op = "Dashboard" =>
        LET mine == logged[ev.in[1]] IN
        IF mine.count = 0
        THEN ev.res = None
        ELSE /\ ev.res # None
             /\ ev.res.count = mine.count
             /\ ev.res.duration = mine.duration
             /\ ev.res.calories = mine.calories
             /\ ev.res.by_type = mine.by_type

C3_Witness ==
    /\ ev.op = "Dashboard"
    /\ ev.res # None
    /\ ev.res.count = 2
    /\ ev.res.duration = 50
    /\ ev.res.calories = 450
    /\ ev.res.by_type = ("Running" :> 300) @@ ("Cycling" :> 150)
    /\ \E u \in UserIds \ {ev.in[1]} : logged[u].count > 0

\* C4: the leaderboard is non-increasing in total calories from first to
\* last entry, and each entry's total is the sum of the calories of all
\* workouts of the user of that username.
C4_LeaderboardOrdered ==
    ev.op = "Leaderboard" =>
        LET lb == ev.res IN
        /\ \A i \in 1..(Len(lb) - 1) : lb[i][2] >= lb[i + 1][2]
        /\ \A i \in 1..Len(lb) :
              \E k \in 1..Len(users) :
                 /\ users[k][2] = lb[i][1]
                 /\ lb[i][2] = logged[users[k][1]].calories

C4_Witness ==
    /\ ev.op = "Leaderboard"
    /\ Len(ev.res) = 2
    /\ ev.res[1][2] > ev.res[2][2]
    /\ ev.res[1][1] = users[2][2]
    /\ logged[users[2][1]].count = 2

HasId(us, user_id) == \E i \in 1..Len(us) : us[i][1] = user_id

\* C5: generate_report for an existing user without workouts ends without
\* an error in a document whose totals are 0 and whose log has no line.
C5_EmptyReport ==
    (/\ ev.op = "generate_report"
     /\ HasId(users, ev.in[1])
     /\ logged[ev.in[1]].count = 0)
        => /\ ev.res.error = ""
           /\ ev.res.total_workouts = 0
           /\ ev.res.total_duration = 0
           /\ ev.res.total_calories = 0
           /\ ev.res.log = <<>>

C5_Witness ==
    /\ ev.op = "generate_report"
    /\ HasId(users, ev.in[1])
    /\ logged[ev.in[1]].count = 0
    /\ ev.res.error = ""
    /\ Len(workouts) > 0

\* C8: every stored challenge has a goal >= 1 and a challenge_type among
\* Time-based, Reps-based, Distance-based.
C8_ChallengeRowsValid ==
    \A i \in 1..Len(challenges) :
        /\ challenges[i].goal >= 1
        /\ challenges[i].challenge_type \in {"Time-based", "Reps-based", "Distance-based"}

\* C10: logged_in holds exactly when the session holds a user row, that row
\* came from a verify_user that succeeded (and is cleared by Logout); Log
\* Workout, Create Challenge and Join Challenge happen only in a logged-in
\* session and insert one row carrying that session's user id; Signup, Login
\* and Reset Password happen only in a logged-out session.
C10_SessionGuard ==
    [][/\ \A s \in Sessions :
             /\ session'[s].logged_in <=> session'[s].user # None
             /\ session'[s] # session[s] =>
                   \/ /\ ev'.op = "Login" /\ ev'.s = s
                      /\ session'[s].user = verify_user(users, ev'.in[1], ev'.in[2])
                      /\ session'[s].user # None
                   \/ /\ ev'.op = "Logout" /\ ev'.s = s
                      /\ session'[s] = LoggedOut
       /\ ev'.op \in {"Signup", "Login", "ResetPassword"} => ~session[ev'.s].logged_in
       /\ ev'.op \in {"LogWorkout", "CreateChallenge", "JoinChallenge"} =>
             /\ session[ev'.s].logged_in
             /\ session'[ev'.s] = session[ev'.s]
       /\ ev'.op = "LogWorkout" =>
             /\ Len(workouts') = Len(workouts) + 1
             /\ workouts'[Len(workouts')].user_id = session[ev'.s].user[1]
       /\ ev'.op = "CreateChallenge" =>
             /\ Len(challenges') = Len(challenges) + 1
             /\ challenges'[Len(challenges')].user_id = session[ev'.s].user[1]
       /\ ev'.op = "JoinChallenge" =>
             /\ Len(participants') = Len(participants) + 1
             /\ participants'[Len(participants')].user_id = session[ev'.s].user[1]
       /\ ev'.op \notin {"LogWorkout"} => workouts' = workouts
       /\ ev'.op \notin {"CreateChallenge"} => challenges' = challenges
       /\ ev'.op \notin {"JoinChallenge"} => participants' = participants]_vars

C10_Witness ==
    /\ ev.op = "LogWorkout"
    /\ session[ev.s].logged_in
    /\ session[ev.s].user[1] = 2
    /\ workouts[Len(workouts)].user_id = 2
    /\ \E s \in Sessions : session[s].logged_in /\ session[s].user[1] = 1
    /\ Len(challenges) > 0
    /\ Len(participants) > 0

----------------------------------------------------------------------------
(* Properties of sessions that interleave on the shared cursor             *)

\* C7: no two rows of users have the same username, also when two sessions
\* interleave the statements of Signup for one username.
C7_UsernamesUnique ==
    \A i, j \in 1..Len(users) : i # j => users[i][2] # users[j][2]

C7_Witness ==
    /\ ev.op = "SignupInsert"
    /\ ev.msg = "IntegrityError"
    /\ HasUsername(users, ev.in[1])

====
